---- MODULE Spec2Model ----
(***************************************************************************)
(* A model of the form-submission relay: the Validation & Dispatch API     *)
(* (main-app/app.js, port 4000) and the Persistence API                    *)
(* (receiver-service/server.js, port 5000) over one MongoDB collection.    *)
(*                                                                         *)
(* Strings are sequences of one-character strings, so that the regular     *)
(* expressions, trim() and toLowerCase() are computed character by         *)
(* character.  A JavaScript number is a record [nan, v]: NaN compares      *)
(* false with everything, as in the language.                              *)
(***************************************************************************)
EXTENDS Integers, Sequences, FiniteSets, TLC

VARIABLES
    db,        \* the FormData collection, in insertion (natural) order
    clock,     \* the wall clock `new Date()` reads; it advances with every write
    nextId,    \* the next _id the store assigns
    today,     \* the calendar date `new Date()` shows in calculateAge
    req,       \* main-app: per connection, the request being served
    pc,        \* main-app: per connection, "idle" | "awaiting" | "done"
    resp,      \* main-app: per connection, the response sent to the caller
    call,      \* receiver: per caller, the HTTP call in flight and its reply
    ops,       \* number of requests started so far (bounded by MaxOps)
    probe      \* input and output of a pure function applied on its own

vars == <<db, clock, nextId, today, req, pc, resp, call, ops, probe>>

-----------------------------------------------------------------------------
(* Bounds of the model *)

\* the number of requests (to either tier) a behaviour starts
MaxOps == 3

\* the length of the names the validators are probed with
MaxNameLen == 3

-----------------------------------------------------------------------------
(* Characters and strings *)

LowerAlpha == <<"a","b","c","d","e","f","g","h","i","j","k","l","m",
                "n","o","p","q","r","s","t","u","v","w","x","y","z">>
UpperAlpha == <<"A","B","C","D","E","F","G","H","I","J","K","L","M",
                "N","O","P","Q","R","S","T","U","V","W","X","Y","Z">>

AlphaIdx == DOMAIN LowerAlpha

\* [a-zA-Z]
IsLetter(c) == \E i \in AlphaIdx : c = LowerAlpha[i] \/ c = UpperAlpha[i]

\* \d
Digits == {"0","1","2","3","4","5","6","7","8","9"}

\* \s, and what String.prototype.trim strips
Whitespace == {" ", "\t", "\n"}

SetMin(S) == CHOOSE x \in S : \A y \in S : x <= y
SetMax(S) == CHOOSE x \in S : \A y \in S : x >= y

\* String.prototype.trim
trim(s) ==
    LET keep == {i \in 1..Len(s) : s[i] \notin Whitespace}
    IN  IF keep = {} THEN <<>> ELSE SubSeq(s, SetMin(keep), SetMax(keep))

LowerChar(c) ==
    IF \E i \in AlphaIdx : c = UpperAlpha[i]
    THEN LowerAlpha[CHOOSE i \in AlphaIdx : c = UpperAlpha[i]]
    ELSE c

\* String.prototype.toLowerCase
toLowerCase(s) == [i \in 1..Len(s) |-> LowerChar(s[i])]

-----------------------------------------------------------------------------
(* JavaScript numbers: an integer or NaN *)

Num(n) == [nan |-> FALSE, v |-> n]
NaN    == [nan |-> TRUE,  v |-> 0]

NumSub(a, b) == IF a.nan \/ b.nan THEN NaN ELSE Num(a.v - b.v)
NumLt(a, b)  == ~a.nan /\ ~b.nan /\ a.v < b.v
NumGt(a, b)  == ~a.nan /\ ~b.nan /\ a.v > b.v
NumEq(a, b)  == ~a.nan /\ ~b.nan /\ a.v = b.v

-----------------------------------------------------------------------------
(* Dates.  A dob string is [k, y, m, d]: k = "ymd" for a string that parses *)
(* to the calendar date y-m-d, "bad" for a non-empty string that does not  *)
(* parse (new Date gives Invalid Date), "empty" for "" or a missing field. *)

DobYmd(y, m, d) == [k |-> "ymd", y |-> y, m |-> m, d |-> d]
DobBad   == [k |-> "bad",   y |-> 0, m |-> 0, d |-> 0]
DobEmpty == [k |-> "empty", y |-> 0, m |-> 0, d |-> 0]

\* new Date(dob) followed by getFullYear / getMonth / getDate: NaN each for
\* an Invalid Date
NewDate(dob) ==
    IF dob.k = "ymd"
    THEN [year |-> Num(dob.y), month |-> Num(dob.m), date |-> Num(dob.d)]
    ELSE [year |-> NaN, month |-> NaN, date |-> NaN]

\* calculateAge with the day compared by <= : the birthday itself counts as
\* not yet reached
calculateAge_DayInclusive(dob, t) ==
    LET birthDate == NewDate(dob)
        now       == NewDate(t)
        age       == NumSub(now.year, birthDate.year)
        monthDiff == NumSub(now.month, birthDate.month)
    IN  IF NumLt(monthDiff, Num(0))
           \/ (NumEq(monthDiff, Num(0)) /\ ~NumGt(now.date, birthDate.date))
        THEN NumSub(age, Num(1))
        ELSE age

\* calculateAge(dob), with `t` the date new Date() returns
calculateAge(dob, t) ==
    LET birthDate == NewDate(dob)
        now       == NewDate(t)
        age       == NumSub(now.year, birthDate.year)
        monthDiff == NumSub(now.month, birthDate.month)
    IN  IF NumLt(monthDiff, Num(0))
           \/ (NumEq(monthDiff, Num(0)) /\ NumLt(now.date, birthDate.date))
        THEN NumSub(age, Num(1))
        ELSE age

-----------------------------------------------------------------------------
(* The validators of main-app *)

\* the name pattern with \w for the letters: digits pass
validateName_WordChars(name) ==
    /\ Len(name) >= 1
    /\ \A i \in 1..Len(name) :
          IsLetter(name[i]) \/ name[i] \in Digits \/ name[i] \in Whitespace

\* /^[a-zA-Z\s]+$/.test(name)
validateName(name) ==
    /\ Len(name) >= 1
    /\ \A i \in 1..Len(name) : IsLetter(name[i]) \/ name[i] \in Whitespace

\* the mobile pattern without its end anchor: more than 10 digits pass
validateMobile_NoEndAnchor(mobile) ==
    /\ Len(mobile) >= 10
    /\ mobile[1] \in {"6","7","8","9"}
    /\ \A i \in 2..10 : mobile[i] \in Digits

\* /^[6789]\d{9}$/.test(mobile)
validateMobile(mobile) ==
    /\ Len(mobile) = 10
    /\ mobile[1] \in {"6","7","8","9"}
    /\ \A i \in 2..10 : mobile[i] \in Digits

-----------------------------------------------------------------------------
(* Connections.  One caller of main-app, and two callers that reach the     *)
(* Persistence API directly; main-app's own downstream call is keyed by the *)
(* main-app connection it serves.                                          *)

MainIds   == {"m1"}
DirectIds == {"d1", "d2"}
Callers   == MainIds \cup DirectIds

-----------------------------------------------------------------------------
(* Values on the wire *)

\* a field `age` of a JSON body: absent, null, a number or a string
AgeUndef   == [k |-> "undef", n |-> 0, s |-> <<>>]
AgeNull    == [k |-> "null",  n |-> 0, s |-> <<>>]
AgeNum(n)  == [k |-> "num",   n |-> n, s |-> <<>>]
AgeStr(s)  == [k |-> "str",   n |-> 0, s |-> s]

\* a field `processedAt` of a JSON body: absent, or an ISO-8601 instant
AtUndef    == [k |-> "undef", t |-> 0]
AtIso(t)   == [k |-> "iso",   t |-> t]

\* Date.prototype.toISOString: the instant, to the millisecond
toISOString(t) == AtIso(t)

\* a body with no field at all: what express.json() leaves in req.body when
\* the request carries no body
EmptyBody ==
    [name |-> <<>>, mobile |-> <<>>, dob |-> DobEmpty, age |-> AgeUndef,
     action |-> <<>>, processedAt |-> AtUndef]

\* JSON.stringify of a number: NaN is written as null
JsonNumber(x) == IF x.nan THEN AgeNull ELSE AgeNum(x.v)

\* JSON.stringify(processedData)
JsonBody(pd) ==
    [name |-> pd.name, mobile |-> pd.mobile, dob |-> pd.dob,
     age |-> JsonNumber(pd.age), action |-> pd.action,
     processedAt |-> pd.processedAt]

\* processedData before it is computed (a request rejected by validation)
NoData ==
    [name |-> <<>>, mobile |-> <<>>, dob |-> DobEmpty, age |-> Num(0),
     action |-> <<>>, processedAt |-> AtUndef]

\* a stored document
NoDoc ==
    [id |-> 0, name |-> <<>>, mobile |-> <<>>, dob |-> DobEmpty, age |-> 0,
     action |-> <<>>, processedAt |-> 0, createdAt |-> 0, updatedAt |-> 0]

\* a reply of the Persistence API.  `message` is the text of the reply,
\* `action` its action label, `data` the document it reports, `list` and
\* `count` the payload of the list operation.
NoReply ==
    [status |-> 0, success |-> FALSE, message |-> "", action |-> "",
     data |-> NoDoc, count |-> 0, list |-> <<>>]

Reply(status, message, action, data) ==
    [status |-> status, success |-> status \in {200, 201}, message |-> message,
     action |-> action, data |-> data, count |-> 0, list |-> <<>>]

\* an HTTP call to the Persistence API: `state` is "none" (no call), "sent",
\* "looked" (Upsert has done its findOne and not yet its save) or "replied"
NoCall ==
    [state |-> "none", method |-> "", body |-> EmptyBody, timeout |-> 0,
     found |-> NoDoc, reply |-> NoReply]

SentCall(method, body, timeout) ==
    [state |-> "sent", method |-> method, body |-> body, timeout |-> timeout,
     found |-> NoDoc, reply |-> NoReply]

\* the error axios rejects with: none, a timeout, or a non-2xx status
NoError        == [k |-> "none",    code |-> 0]
TimeoutError   == [k |-> "timeout", code |-> 0]
StatusError(c) == [k |-> "status",  code |-> c]

\* error.message of the error axios rejects with
AxiosErrorMessage(e) ==
    CASE e.k = "timeout" -> "timeout of 10000ms exceeded"
      [] e.k = "status" /\ e.code = 400 -> "Request failed with status code 400"
      [] e.k = "status" /\ e.code = 404 -> "Request failed with status code 404"
      [] e.k = "status" /\ e.code = 500 -> "Request failed with status code 500"
      [] OTHER -> ""

\* a response of main-app
NoResp ==
    [status |-> 0, success |-> FALSE, message |-> "", httpMethod |-> "",
     processedData |-> NoData, mongoResponse |-> NoReply, error |-> NoError]

\* a request of main-app: kind "post" or "get", the body received,
\* processedData and the HTTP method chosen for the downstream call
NoReq ==
    [kind |-> "", body |-> [name |-> <<>>, mobile |-> <<>>, dob |-> DobEmpty,
                            action |-> <<>>],
     processedData |-> NoData, httpMethodName |-> ""]

-----------------------------------------------------------------------------
(* main-app: POST /api/post *)

S_create == <<"c","r","e","a","t","e">>
S_update == <<"u","p","d","a","t","e">>
S_delete == <<"d","e","l","e","t","e">>

validActions == {S_create, S_update, S_delete}

\* the timeout option of the downstream calls, in milliseconds
TIMEOUT_MS == 10000

\* the validation steps in the order of the handler; the name of the step
\* that returns 400, or "ok"
\* the age check without its upper limit
AgeRejected_NoUpperLimit(age) == NumLt(age, Num(0))

AgeRejected(age) == NumLt(age, Num(0)) \/ NumGt(age, Num(150))

ActionRejected(action) == toLowerCase(action) \notin validActions

Validate(body, t) ==
    IF body.name = <<>> \/ body.mobile = <<>> \/ body.dob.k = "empty"
       \/ body.action = <<>>
    THEN "MissingField"
    ELSE IF ~validateName(body.name) THEN "InvalidName"
    ELSE IF ~validateMobile(body.mobile) THEN "InvalidMobile"
    ELSE IF AgeRejected(calculateAge(body.dob, t)) THEN "InvalidDob"
    ELSE IF ActionRejected(body.action) THEN "InvalidAction"
    ELSE "ok"

ValidationMessage(step) ==
    CASE step = "MissingField"  -> "All fields (name, mobile, dob, action) are required"
      [] step = "InvalidName"   -> "Name should contain only letters (a-zA-Z) and spaces"
      [] step = "InvalidMobile" -> "Mobile number should be 10 digits starting with 6, 7, 8, or 9"
      [] step = "InvalidDob"    -> "Invalid date of birth format or unrealistic age"
      [] step = "InvalidAction" -> "Invalid action. Must be create, update, or delete."

\* the processedData object
ProcessedData(body, t, now) ==
    [name |-> trim(body.name), mobile |-> trim(body.mobile), dob |-> body.dob,
     age |-> calculateAge(body.dob, t),
     action |-> trim(toLowerCase(body.action)),
     processedAt |-> toISOString(now)]

\* switch (action.toLowerCase()): the HTTP method name, "" in the default case
HttpMethodName(action) ==
    LET a == toLowerCase(action)
    IN  IF a = S_create THEN "POST"
        ELSE IF a = S_update THEN "PUT"
        ELSE IF a = S_delete THEN "DELETE"
        ELSE ""

\* The request axios sends for httpMethod(url, processedData, {headers, timeout}).
\* axios.post and axios.put are (url, data, config): the second argument is the
\* body and the third carries the timeout.  axios.delete is (url, config): the
\* second argument is read as the config, so the body is config.data and the
\* timeout config.timeout, neither of which processedData has; the third
\* argument is ignored.  A timeout of 0 is axios's default: no timeout.
AxiosRequest(method, second, third) ==
    IF method \in {"POST", "PUT"}
    THEN SentCall(method, JsonBody(second), third.timeout)
    ELSE SentCall(method,
                  IF "data" \in DOMAIN second THEN JsonBody(second.data) ELSE EmptyBody,
                  IF "timeout" \in DOMAIN second THEN second.timeout ELSE 0)

Rejected(message) ==
    [status |-> 400, success |-> FALSE, message |-> message, httpMethod |-> "",
     processedData |-> NoData, mongoResponse |-> NoReply, error |-> NoError]

\* the handler up to its await: a 400 response, or the downstream call.  A
\* connection carries one request at a time, the next one once the downstream
\* call of the previous one has ended.
MainPost(r, body) ==
    /\ pc[r] \in {"idle", "done"}
    /\ call[r].state \in {"none", "replied"}
    /\ ops < MaxOps
    /\ ops' = ops + 1
    /\ LET step   == Validate(body, today)
           pd     == ProcessedData(body, today, clock)
           method == HttpMethodName(body.action)
       IN  IF step # "ok"
           THEN /\ req' = [req EXCEPT ![r] = [kind |-> "post", body |-> body,
                                              processedData |-> NoData,
                                              httpMethodName |-> ""]]
                /\ resp' = [resp EXCEPT ![r] = Rejected(ValidationMessage(step))]
                /\ pc' = [pc EXCEPT ![r] = "done"]
                /\ call' = [call EXCEPT ![r] = NoCall]
           ELSE IF method = ""
           THEN /\ req' = [req EXCEPT ![r] = [kind |-> "post", body |-> body,
                                              processedData |-> pd,
                                              httpMethodName |-> ""]]
                /\ resp' = [resp EXCEPT ![r] = Rejected("Invalid action specified")]
                /\ pc' = [pc EXCEPT ![r] = "done"]
                /\ call' = [call EXCEPT ![r] = NoCall]
           ELSE /\ req' = [req EXCEPT ![r] = [kind |-> "post", body |-> body,
                                              processedData |-> pd,
                                              httpMethodName |-> method]]
                /\ resp' = [resp EXCEPT ![r] = NoResp]
                /\ pc' = [pc EXCEPT ![r] = "awaiting"]
                /\ call' = [call EXCEPT ![r] =
                               AxiosRequest(method, pd, [timeout |-> TIMEOUT_MS])]
    /\ UNCHANGED <<db, nextId, clock, today, probe>>

\* the 502 response without the processedData field
PostResponse_NoData(q, reply) ==
    IF reply.status \in 200..299
    THEN [status |-> 200, success |-> TRUE,
          message |-> "Form data validated, processed, and ${ACTION} action completed successfully in MongoDB",
          httpMethod |-> q.httpMethodName, processedData |-> q.processedData,
          mongoResponse |-> reply, error |-> NoError]
    ELSE [status |-> 502, success |-> FALSE,
          message |-> "Data processed successfully but failed to send ${METHOD} request to MongoDB receiver service",
          httpMethod |-> "", processedData |-> NoData,
          mongoResponse |-> NoReply, error |-> StatusError(reply.status)]

\* the handler after its await resolves or rejects with a reply: 200 for a
\* 2xx reply (lines 141-147), 502 for any other (lines 149-158)
PostResponse(q, reply) ==
    IF reply.status \in 200..299
    THEN [status |-> 200, success |-> TRUE,
          message |-> "Form data validated, processed, and ${ACTION} action completed successfully in MongoDB",
          httpMethod |-> q.httpMethodName, processedData |-> q.processedData,
          mongoResponse |-> reply, error |-> NoError]
    ELSE [status |-> 502, success |-> FALSE,
          message |-> "Data processed successfully but failed to send ${METHOD} request to MongoDB receiver service",
          httpMethod |-> "", processedData |-> q.processedData,
          mongoResponse |-> NoReply, error |-> StatusError(reply.status)]

\* lines 149-158 when axios rejects with its timeout
PostTimeoutResponse(q) ==
    [status |-> 502, success |-> FALSE,
     message |-> "Data processed successfully but failed to send ${METHOD} request to MongoDB receiver service",
     httpMethod |-> "", processedData |-> q.processedData,
     mongoResponse |-> NoReply, error |-> TimeoutError]

-----------------------------------------------------------------------------
(* main-app: GET /api/getdata *)

\* the handler up to its await: axios.get(url, {timeout})
MainGet(r) ==
    /\ pc[r] \in {"idle", "done"}
    /\ call[r].state \in {"none", "replied"}
    /\ ops < MaxOps
    /\ ops' = ops + 1
    /\ req' = [req EXCEPT ![r] = [kind |-> "get", body |-> NoReq.body,
                                  processedData |-> NoData,
                                  httpMethodName |-> "GET"]]
    /\ resp' = [resp EXCEPT ![r] = NoResp]
    /\ pc' = [pc EXCEPT ![r] = "awaiting"]
    /\ call' = [call EXCEPT ![r] =
                   AxiosRequest("GET", [timeout |-> TIMEOUT_MS], [none |-> TRUE])]
    /\ UNCHANGED <<db, nextId, clock, today, probe>>

\* lines 183-188 and 190-198
GetResponse(reply) ==
    IF reply.status \in 200..299
    THEN [status |-> 200, success |-> TRUE,
          message |-> "Data retrieved successfully from MongoDB via receiver service",
          httpMethod |-> "", processedData |-> NoData,
          mongoResponse |-> reply, error |-> NoError]
    ELSE [status |-> 502, success |-> FALSE,
          message |-> "Failed to retrieve data from MongoDB receiver service",
          httpMethod |-> "", processedData |-> NoData,
          mongoResponse |-> NoReply, error |-> StatusError(reply.status)]

GetTimeoutResponse ==
    [status |-> 502, success |-> FALSE,
     message |-> "Failed to retrieve data from MongoDB receiver service",
     httpMethod |-> "", processedData |-> NoData,
     mongoResponse |-> NoReply, error |-> TimeoutError]

-----------------------------------------------------------------------------
(* main-app: the end of a downstream call *)

\* the reply of the Persistence API arrives: the await resolves, or rejects
\* with the non-2xx status
MainComplete(r) ==
    /\ pc[r] = "awaiting"
    /\ call[r].state = "replied"
    /\ resp' = [resp EXCEPT ![r] =
                   IF req[r].kind = "post"
                   THEN PostResponse(req[r], call[r].reply)
                   ELSE GetResponse(call[r].reply)]
    /\ pc' = [pc EXCEPT ![r] = "done"]
    /\ UNCHANGED <<db, nextId, clock, today, req, call, ops, probe>>

\* the timeout of the call, when it has one, expires before the reply: the
\* await rejects.  The Persistence API goes on serving the call.
MainTimeout(r) ==
    /\ pc[r] = "awaiting"
    /\ call[r].state \in {"sent", "looked"}
    /\ call[r].timeout > 0
    /\ resp' = [resp EXCEPT ![r] =
                   IF req[r].kind = "post"
                   THEN PostTimeoutResponse(req[r])
                   ELSE GetTimeoutResponse]
    /\ pc' = [pc EXCEPT ![r] = "done"]
    /\ UNCHANGED <<db, nextId, clock, today, req, call, ops, probe>>

-----------------------------------------------------------------------------
(* receiver-service: the store *)

DigitSeq == <<"0","1","2","3","4","5","6","7","8","9">>

DigitValue(c) == (CHOOSE i \in DOMAIN DigitSeq : DigitSeq[i] = c) - 1

RECURSIVE DigitsValue(_)
DigitsValue(s) ==
    IF s = <<>> THEN 0
    ELSE DigitsValue(SubSeq(s, 1, Len(s) - 1)) * 10 + DigitValue(s[Len(s)])

\* the longest prefix of s made of digits
LeadingDigits(s) ==
    SubSeq(s, 1, SetMax({i \in 0..Len(s) : \A j \in 1..i : s[j] \in Digits}))

\* parseInt(age): a number is itself, null gives NaN, a string gives the value
\* of its leading digits (after white space and a sign) or NaN without any
parseInt(a) ==
    CASE a.k = "num" -> Num(a.n)
      [] a.k = "str" ->
            LET t   == trim(a.s)
                neg == t # <<>> /\ t[1] = "-"
                u   == IF neg THEN Tail(t) ELSE t
                ds  == LeadingDigits(u)
            IN  IF ds = <<>> THEN NaN
                ELSE Num(IF neg THEN 0 - DigitsValue(ds) ELSE DigitsValue(ds))
      [] OTHER -> NaN

\* `processedAt ? new Date(processedAt) : new Date()`
ProcessedAtOr(at, now) == IF at.k = "iso" THEN at.t ELSE now

\* the required-field check of Insert and Upsert
RequiredMissing(b) ==
    \/ b.name = <<>>
    \/ b.mobile = <<>>
    \/ b.dob.k = "empty"
    \/ b.age.k = "undef"
    \/ b.action = <<>>

\* new FormData({...}) of Insert (lines 71-78)
InsertFields(b, now) ==
    [name |-> trim(b.name), mobile |-> trim(b.mobile), dob |-> b.dob,
     age |-> parseInt(b.age), action |-> trim(b.action),
     processedAt |-> ProcessedAtOr(b.processedAt, now)]

\* Upsert's fallback storing name and age as received, untrimmed and uncoerced
UpsertCreateFields_Raw(b, now) ==
    [name |-> b.name, mobile |-> trim(b.mobile), dob |-> b.dob,
     age |-> IF b.age.k = "num" THEN Num(b.age.n) ELSE NaN,
     action |-> trim(b.action),
     processedAt |-> ProcessedAtOr(b.processedAt, now)]

\* new FormData({...}) of Upsert's fallback (lines 132-139)
UpsertCreateFields(b, now) ==
    [name |-> trim(b.name), mobile |-> trim(b.mobile), dob |-> b.dob,
     age |-> parseInt(b.age), action |-> trim(b.action),
     processedAt |-> ProcessedAtOr(b.processedAt, now)]

\* the assignments of Upsert to the document it found (lines 164-168)
UpsertUpdateFields(existingData, b, now) ==
    [name |-> trim(b.name), mobile |-> existingData.mobile, dob |-> b.dob,
     age |-> parseInt(b.age), action |-> trim(b.action),
     processedAt |-> ProcessedAtOr(b.processedAt, now)]

\* FormDataSchema: every path is required (a required String is not empty),
\* and age casts to a Number (NaN does not)
SchemaValid(f) ==
    /\ f.name # <<>>
    /\ f.mobile # <<>>
    /\ f.dob.k # "empty"
    /\ ~f.age.nan
    /\ f.action # <<>>

\* the document save() inserts: the store assigns _id, createdAt, updatedAt
NewDoc(f, id, now) ==
    [id |-> id, name |-> f.name, mobile |-> f.mobile, dob |-> f.dob,
     age |-> f.age.v, action |-> f.action, processedAt |-> f.processedAt,
     createdAt |-> now, updatedAt |-> now]

\* findOne with a filter that matches every document: the first one stored
findOne_AnyMobile(coll, mobile) ==
    IF coll = <<>> THEN NoDoc ELSE coll[1]

\* FormData.findOne({mobile}): the first match in natural order, or null
findOne(coll, mobile) ==
    LET hit == {i \in 1..Len(coll) : coll[i].mobile = mobile}
    IN  IF hit = {} THEN NoDoc ELSE coll[SetMin(hit)]

\* the collection without its i-th document
RemoveAt(coll, i) == SubSeq(coll, 1, i - 1) \o SubSeq(coll, i + 1, Len(coll))

\* deleteMany({mobile}): every match is removed
findOneAndDelete_Many(coll, mobile) ==
    SelectSeq(coll, LAMBDA d : d.mobile # mobile)

\* FormData.findOneAndDelete({mobile}): the collection afterwards
findOneAndDelete(coll, mobile) ==
    LET hit == {i \in 1..Len(coll) : coll[i].mobile = mobile}
    IN  IF hit = {} THEN coll ELSE RemoveAt(coll, SetMin(hit))

\* save() that writes the whole document anew, as a replacement does: the
\* store stamps createdAt again
SavedDoc_Replace(stored, loaded, f, now) ==
    [id |-> stored.id, name |-> f.name, mobile |-> stored.mobile,
     dob |-> f.dob, age |-> f.age.v, action |-> f.action,
     processedAt |-> f.processedAt, createdAt |-> now, updatedAt |-> now]

\* save() of a document that was loaded: the paths whose value differs from
\* the loaded one are written to the stored document with that _id, and
\* updatedAt with them
SavedDoc(stored, loaded, f, now) ==
    LET changed == f.name # loaded.name \/ f.dob # loaded.dob
                   \/ f.age.v # loaded.age \/ f.action # loaded.action
                   \/ f.processedAt # loaded.processedAt
    IN  [id |-> stored.id,
         name |-> IF f.name # loaded.name THEN f.name ELSE stored.name,
         mobile |-> stored.mobile,
         dob |-> IF f.dob # loaded.dob THEN f.dob ELSE stored.dob,
         age |-> IF f.age.v # loaded.age THEN f.age.v ELSE stored.age,
         action |-> IF f.action # loaded.action THEN f.action ELSE stored.action,
         processedAt |-> IF f.processedAt # loaded.processedAt
                         THEN f.processedAt ELSE stored.processedAt,
         createdAt |-> stored.createdAt,
         updatedAt |-> IF changed THEN now ELSE stored.updatedAt]

\* the document save() resolves with: the loaded document with its assignments
UpdatedDoc(loaded, f, now) ==
    LET changed == f.name # loaded.name \/ f.dob # loaded.dob
                   \/ f.age.v # loaded.age \/ f.action # loaded.action
                   \/ f.processedAt # loaded.processedAt
    IN  [id |-> loaded.id, name |-> f.name, mobile |-> loaded.mobile,
         dob |-> f.dob, age |-> f.age.v, action |-> f.action,
         processedAt |-> f.processedAt, createdAt |-> loaded.createdAt,
         updatedAt |-> IF changed THEN now ELSE loaded.updatedAt]

IndexOfId(coll, id) ==
    LET hit == {i \in 1..Len(coll) : coll[i].id = id}
    IN  IF hit = {} THEN 0 ELSE SetMin(hit)

RECURSIVE SortNewestFirst_Oldest(_)
\* the sort with createdAt: 1, oldest first
SortNewestFirst_Oldest(coll) ==
    IF coll = <<>> THEN <<>>
    ELSE LET oldest == SetMin({coll[i].createdAt : i \in 1..Len(coll)})
             i      == SetMin({j \in 1..Len(coll) : coll[j].createdAt = oldest})
         IN  <<coll[i]>> \o SortNewestFirst_Oldest(RemoveAt(coll, i))

RECURSIVE SortNewestFirst(_)
\* FormData.find().sort({createdAt: -1})
SortNewestFirst(coll) ==
    IF coll = <<>> THEN <<>>
    ELSE LET newest == SetMax({coll[i].createdAt : i \in 1..Len(coll)})
             i      == SetMin({j \in 1..Len(coll) : coll[j].createdAt = newest})
         IN  <<coll[i]>> \o SortNewestFirst(RemoveAt(coll, i))

Finish(k, reply) ==
    call' = [call EXCEPT ![k].state = "replied", ![k].reply = reply]

-----------------------------------------------------------------------------
(* receiver-service: the handlers *)

\* POST /api/postdata/db
RecvInsert(k) ==
    /\ call[k].state = "sent"
    /\ call[k].method = "POST"
    /\ LET b == call[k].body
           f == InsertFields(b, clock)
       IN  IF RequiredMissing(b)
           THEN /\ Finish(k, Reply(400, "All fields (name, mobile, dob, age, action) are required", "", NoDoc))
                /\ UNCHANGED <<db, nextId, clock>>
           ELSE IF ~SchemaValid(f)
           THEN /\ Finish(k, Reply(500, "Failed to create data in MongoDB", "", NoDoc))
                /\ UNCHANGED <<db, nextId, clock>>
           ELSE /\ db' = Append(db, NewDoc(f, nextId, clock))
                /\ nextId' = nextId + 1
                /\ clock' = clock + 1
                /\ Finish(k, Reply(201, "Data created in MongoDB successfully",
                                   "CREATE", NewDoc(f, nextId, clock)))
    /\ UNCHANGED <<today, req, pc, resp, ops, probe>>

\* PUT /api/postdata/db, up to the end of its findOne
RecvUpsertLookup(k) ==
    /\ call[k].state = "sent"
    /\ call[k].method = "PUT"
    /\ LET b == call[k].body
       IN  IF RequiredMissing(b)
           THEN Finish(k, Reply(400, "All fields (name, mobile, dob, age, action) are required for update", "", NoDoc))
           ELSE call' = [call EXCEPT ![k].state = "looked",
                                     ![k].found = findOne(db, trim(b.mobile))]
    /\ UNCHANGED <<db, nextId, clock, today, req, pc, resp, ops, probe>>

\* Upsert as one atomic find-and-write: the record is looked up again at the
\* moment of the write
RecvUpsertWrite_Atomic(k) ==
    /\ call[k].state = "looked"
    /\ LET b            == call[k].body
           existingData == findOne(db, trim(b.mobile))
       IN  IF existingData = NoDoc
           THEN LET f == UpsertCreateFields(b, clock)
                IN  IF ~SchemaValid(f)
                    THEN /\ Finish(k, Reply(500, "Failed to update data in MongoDB", "", NoDoc))
                         /\ UNCHANGED <<db, nextId, clock>>
                    ELSE /\ db' = Append(db, NewDoc(f, nextId, clock))
                         /\ nextId' = nextId + 1
                         /\ clock' = clock + 1
                         /\ Finish(k, Reply(201, "Data created (record not found for update) in MongoDB successfully",
                                            "CREATE (from UPDATE)", NewDoc(f, nextId, clock)))
           ELSE LET f == UpsertUpdateFields(existingData, b, clock)
                    i == IndexOfId(db, existingData.id)
                IN  IF ~SchemaValid(f) \/ i = 0
                    THEN /\ Finish(k, Reply(500, "Failed to update data in MongoDB", "", NoDoc))
                         /\ UNCHANGED <<db, nextId, clock>>
                    ELSE /\ db' = [db EXCEPT ![i] = SavedDoc(db[i], existingData, f, clock)]
                         /\ clock' = clock + 1
                         /\ nextId' = nextId
                         /\ Finish(k, Reply(200, "Data updated in MongoDB successfully",
                                            "UPDATE", UpdatedDoc(existingData, f, clock)))
    /\ UNCHANGED <<today, req, pc, resp, ops, probe>>

\* PUT /api/postdata/db, from the result of its findOne to its reply
RecvUpsertWrite(k) ==
    /\ call[k].state = "looked"
    /\ LET b            == call[k].body
           existingData == call[k].found
       IN  IF existingData = NoDoc
           THEN LET f == UpsertCreateFields(b, clock)
                IN  IF ~SchemaValid(f)
                    THEN /\ Finish(k, Reply(500, "Failed to update data in MongoDB", "", NoDoc))
                         /\ UNCHANGED <<db, nextId, clock>>
                    ELSE /\ db' = Append(db, NewDoc(f, nextId, clock))
                         /\ nextId' = nextId + 1
                         /\ clock' = clock + 1
                         /\ Finish(k, Reply(201, "Data created (record not found for update) in MongoDB successfully",
                                            "CREATE (from UPDATE)", NewDoc(f, nextId, clock)))
           ELSE LET f == UpsertUpdateFields(existingData, b, clock)
                    i == IndexOfId(db, existingData.id)
                IN  IF ~SchemaValid(f) \/ i = 0
                    THEN /\ Finish(k, Reply(500, "Failed to update data in MongoDB", "", NoDoc))
                         /\ UNCHANGED <<db, nextId, clock>>
                    ELSE /\ db' = [db EXCEPT ![i] = SavedDoc(db[i], existingData, f, clock)]
                         /\ clock' = clock + 1
                         /\ nextId' = nextId
                         /\ Finish(k, Reply(200, "Data updated in MongoDB successfully",
                                            "UPDATE", UpdatedDoc(existingData, f, clock)))
    /\ UNCHANGED <<today, req, pc, resp, ops, probe>>

\* DELETE without the test of findOneAndDelete's result: reading the fields
\* of null throws, and the catch block answers 500
RecvDelete_NoNullCheck(k) ==
    /\ call[k].state = "sent"
    /\ call[k].method = "DELETE"
    /\ LET b           == call[k].body
           deletedData == findOne(db, trim(b.mobile))
       IN  IF b.mobile = <<>>
           THEN /\ Finish(k, Reply(400, "Mobile number is required for delete operation", "", NoDoc))
                /\ db' = db
           ELSE IF deletedData = NoDoc
           THEN /\ Finish(k, Reply(500, "Failed to delete data from MongoDB", "", NoDoc))
                /\ db' = db
           ELSE /\ db' = findOneAndDelete(db, trim(b.mobile))
                /\ Finish(k, Reply(200, "Data deleted from MongoDB successfully",
                                   "DELETE", deletedData))
    /\ UNCHANGED <<nextId, clock, today, req, pc, resp, ops, probe>>

\* DELETE /api/postdata/db
RecvDelete(k) ==
    /\ call[k].state = "sent"
    /\ call[k].method = "DELETE"
    /\ LET b           == call[k].body
           deletedData == findOne(db, trim(b.mobile))
       IN  IF b.mobile = <<>>
           THEN /\ Finish(k, Reply(400, "Mobile number is required for delete operation", "", NoDoc))
                /\ db' = db
           ELSE IF deletedData = NoDoc
           THEN /\ Finish(k, Reply(404, "Record not found for deletion", "", NoDoc))
                /\ db' = db
           ELSE /\ db' = findOneAndDelete(db, trim(b.mobile))
                /\ Finish(k, Reply(200, "Data deleted from MongoDB successfully",
                                   "DELETE", deletedData))
    /\ UNCHANGED <<nextId, clock, today, req, pc, resp, ops, probe>>

\* GET /api/getdata/db
RecvList(k) ==
    /\ call[k].state = "sent"
    /\ call[k].method = "GET"
    /\ LET allData == SortNewestFirst(db)
       IN  Finish(k, [status |-> 200, success |-> TRUE, message |-> "",
                      action |-> "", data |-> NoDoc, count |-> Len(allData),
                      list |-> allData])
    /\ UNCHANGED <<db, nextId, clock, today, req, pc, resp, ops, probe>>


-----------------------------------------------------------------------------
(* The requests of the model *)

\* names: valid, valid with white space around, white space only, with a
\* digit, empty
N_ok    == <<"A","b">>
N_pad   == <<" ","A","b">>
N_blank == <<" ">>
N_digit == <<"A","1">>

\* mobiles: two valid ones, a wrong first digit, too short
M_1     == <<"9","8","7","6","5","4","3","2","1","0">>
M_2     == <<"6","0","0","0","0","0","0","0","0","1">>
M_first == <<"1","2","3","4","5","6","7","8","9","0">>
M_short == <<"9","8","7","6","5","4","3","2">>

\* the current date of the system model, and dates of birth around it
T_now      == DobYmd(2024, 6, 15)
D_past     == DobYmd(1995, 1, 1)
D_today    == DobYmd(2024, 6, 15)
D_tomorrow == DobYmd(2024, 6, 16)
D_ancient  == DobYmd(1800, 1, 1)

\* actions: other letter case, white space around, not an action
S_Create    == <<"C","r","e","a","t","e">>
S_UPDATE_sp == <<"U","P","D","A","T","E"," ">>
S_sp_create == <<" ","c","r","e","a","t","e">>
S_purge     == <<"p","u","r","g","e">>

Body(name, mobile, dob, action) ==
    [name |-> name, mobile |-> mobile, dob |-> dob, action |-> action]

\* the bodies POST /api/post is called with: valid ones, and for each
\* validation step bodies that differ from a valid one where the step looks
MainBodies ==
    { Body(N_ok, M_1, D_past, S_create),
      Body(N_ok, M_1, D_past, S_update),
      Body(N_ok, M_1, D_past, S_delete),
      Body(N_pad, M_2, D_today, S_Create),
      Body(<<>>, M_1, D_past, S_create),
      Body(N_ok, M_1, DobEmpty, S_update),
      Body(N_blank, M_1, D_past, S_create),
      Body(N_digit, M_1, D_past, S_create),
      Body(N_ok, M_first, D_past, S_create),
      Body(N_ok, M_short, D_past, S_delete),
      Body(N_ok, M_1, DobBad, S_create),
      Body(N_ok, M_1, DobBad, S_delete),
      Body(N_ok, M_1, D_tomorrow, S_create),
      Body(N_ok, M_1, D_ancient, S_update),
      Body(N_ok, M_1, D_past, S_purge),
      Body(N_ok, M_1, D_past, S_sp_create),
      Body(N_ok, M_1, D_past, S_UPDATE_sp),
      Body(N_digit, M_1, DobBad, S_purge) }

\* the bodies the Persistence API is called with directly
WireBody(name, mobile, dob, age, action, at) ==
    [name |-> name, mobile |-> mobile, dob |-> dob, age |-> age,
     action |-> action, processedAt |-> at]

DirectRequest(method, body) == [method |-> method, body |-> body]

\* Insert and Upsert with a complete valid record, with values that need
\* coercion, with values main-app would reject, with a field missing; Delete
\* with and without a mobile; List
DirectRequests ==
    { DirectRequest(m, b) :
        m \in {"POST", "PUT"},
        b \in { WireBody(N_ok, M_1, D_past, AgeNum(29), S_create, AtUndef),
                WireBody(N_pad, M_2, D_past, AgeStr(<<"3","1","x">>), S_sp_create, AtIso(0)),
                WireBody(N_digit, M_first, DobBad, AgeNum(200), S_purge, AtUndef),
                WireBody(N_ok, M_1, D_today, AgeUndef, S_update, AtUndef) } }
    \cup { DirectRequest("PUT", WireBody(N_ok, M_1, D_today, AgeNull, S_update, AtUndef)),
           DirectRequest("DELETE", WireBody(<<>>, M_1, DobEmpty, AgeUndef, <<>>, AtUndef)),
           DirectRequest("DELETE", WireBody(<<>>, M_2, DobEmpty, AgeUndef, <<>>, AtUndef)),
           DirectRequest("DELETE", EmptyBody),
           DirectRequest("GET", EmptyBody) }

\* a client calls the Persistence API without going through main-app; the
\* second connection is used when the first is busy
DirectCall(k, method, body) ==
    /\ k \in DirectIds
    /\ call[k].state \in {"none", "replied"}
    /\ k = "d1" \/ call["d1"].state \in {"sent", "looked"}
    /\ ops < MaxOps
    /\ ops' = ops + 1
    /\ call' = [call EXCEPT ![k] = SentCall(method, body, 0)]
    /\ UNCHANGED <<db, nextId, clock, today, req, pc, resp, probe>>

-----------------------------------------------------------------------------
(* The system *)

NoProbe ==
    [fn |-> "", done |-> FALSE, s |-> <<>>, dob |-> DobEmpty,
     ok |-> FALSE, age |-> NaN]

Init ==
    /\ db = <<>>
    /\ clock = 1
    /\ nextId = 1
    /\ today = T_now
    /\ req = [r \in MainIds |-> NoReq]
    /\ pc = [r \in MainIds |-> "idle"]
    /\ resp = [r \in MainIds |-> NoResp]
    /\ call = [k \in Callers |-> NoCall]
    /\ ops = 0
    /\ probe = NoProbe

Next ==
    \/ \E r \in MainIds, body \in MainBodies : MainPost(r, body)
    \/ \E r \in MainIds : MainGet(r)
    \/ \E r \in MainIds : MainComplete(r)
    \/ \E r \in MainIds : MainTimeout(r)
    \/ \E k \in DirectIds, q \in DirectRequests : DirectCall(k, q.method, q.body)
    \/ \E k \in Callers : RecvInsert(k)
    \/ \E k \in Callers : RecvUpsertLookup(k)
    \/ \E k \in Callers : RecvUpsertWrite(k)
    \/ \E k \in Callers : RecvDelete(k)
    \/ \E k \in Callers : RecvList(k)

Spec == Init /\ [][Next]_vars

-----------------------------------------------------------------------------
(* The pure functions of main-app, each applied on its own to an input     *)
(* drawn from a bounded set                                                *)

\* a letter of each case, white space, a digit and a symbol
ProbeChars == {"a", "Z", " ", "\n", "1", "-"}

ProbeNames == UNION {[1..n -> ProbeChars] : n \in 0..MaxNameLen}

\* strings of 9 to 11 characters: a first character, then zeros with at most
\* one other character among them; and the mobiles of the system model
ProbeMobiles ==
    { [i \in 1..n |-> IF i = 1 THEN f ELSE IF i = p THEN x ELSE "0"] :
        n \in 9..11, f \in {"0", "5", "6", "7", "8", "9", "a", " "},
        p \in 2..12, x \in {"3", "a", " ", "-"} }
    \cup {M_1, M_2, M_first, M_short, <<>>}

\* dates around the anniversary, in the year of birth and later years
ProbeDates(years) ==
    {DobYmd(y, m, d) : y \in years, m \in {5, 6, 7}, d \in {14, 15, 16}}

Probe(fn, s, dob) ==
    [fn |-> fn, done |-> FALSE, s |-> s, dob |-> dob, ok |-> FALSE, age |-> NaN]

PureInit ==
    /\ db = <<>>
    /\ clock = 1
    /\ nextId = 1
    /\ req = [r \in MainIds |-> NoReq]
    /\ pc = [r \in MainIds |-> "idle"]
    /\ resp = [r \in MainIds |-> NoResp]
    /\ call = [k \in Callers |-> NoCall]
    /\ ops = 0
    /\ \/ /\ today = T_now
          /\ probe \in {Probe("validateName", s, DobEmpty) : s \in ProbeNames}
                       \cup {Probe("validateMobile", s, DobEmpty) : s \in ProbeMobiles}
       \/ /\ today \in ProbeDates({2000, 2024})
          /\ probe \in {Probe("calculateAge", <<>>, d) :
                           d \in ProbeDates({2000, 2023}) \cup {DobBad}}

ApplyValidateName ==
    /\ probe.fn = "validateName"
    /\ ~probe.done
    /\ probe' = [probe EXCEPT !.done = TRUE, !.ok = validateName(probe.s)]
    /\ UNCHANGED <<db, clock, nextId, today, req, pc, resp, call, ops>>

ApplyValidateMobile ==
    /\ probe.fn = "validateMobile"
    /\ ~probe.done
    /\ probe' = [probe EXCEPT !.done = TRUE, !.ok = validateMobile(probe.s)]
    /\ UNCHANGED <<db, clock, nextId, today, req, pc, resp, call, ops>>

ApplyCalculateAge ==
    /\ probe.fn = "calculateAge"
    /\ ~probe.done
    /\ probe' = [probe EXCEPT !.done = TRUE, !.age = calculateAge(probe.dob, today)]
    /\ UNCHANGED <<db, clock, nextId, today, req, pc, resp, call, ops>>

PureNext == ApplyValidateName \/ ApplyValidateMobile \/ ApplyCalculateAge

PureSpec == PureInit /\ [][PureNext]_vars

-----------------------------------------------------------------------------
(* Claims about the pure functions, under PureSpec *)

\* the characters the claims call letters and white space, and digits
Claim_Letters == {"a", "Z"}
Claim_Blank   == {" ", "\n"}
Claim_Digits  == {"0","1","2","3","4","5","6","7","8","9"}

Claim_Chars(s) == {s[i] : i \in DOMAIN s}

\* C5: validateName accepts a value iff it is one or more characters that are
\* all letters or white space, and validateMobile accepts a value iff it is
\* exactly 10 digits with the first in {6,7,8,9}; "9876543210" passes,
\* "1234567890" and "98765432" fail.
C5_ValidatorsExact ==
    /\ (probe.done /\ probe.fn = "validateName") =>
          (probe.ok <=> (probe.s # <<>>
                         /\ Claim_Chars(probe.s) \subseteq Claim_Letters \cup Claim_Blank))
    /\ (probe.done /\ probe.fn = "validateMobile") =>
          /\ probe.ok <=> (/\ Len(probe.s) = 10
                           /\ Claim_Chars(probe.s) \subseteq Claim_Digits
                           /\ probe.s[1] \in {"6", "7", "8", "9"})
          /\ probe.s = M_1 => probe.ok
          /\ probe.s \in {M_first, M_short} => ~probe.ok

\* validateMobile has accepted "9876543210"
C5_Witness ==
    probe.done /\ probe.fn = "validateMobile" /\ probe.s = M_1 /\ probe.ok

\* whether the month and day (M, D) are on or after (m, d) in calendar order
Claim_OnOrAfter(M, D, m, d) == M > m \/ (M = m /\ D >= d)

\* C9: for every birth date (y, m, d) and current date (Y, M, D), calculateAge
\* returns Y - y when (M, D) is on or after (m, d) and Y - y - 1 when it
\* precedes it; dob 2000-06-15 gives 23 on 2024-06-14 and 24 on 2024-06-15.
C9_AgeByAnniversary ==
    (probe.done /\ probe.fn = "calculateAge" /\ probe.dob.k = "ymd") =>
        /\ ~probe.age.nan
        /\ probe.age.v =
              IF Claim_OnOrAfter(today.m, today.d, probe.dob.m, probe.dob.d)
              THEN today.y - probe.dob.y
              ELSE today.y - probe.dob.y - 1
        /\ (probe.dob = DobYmd(2000, 6, 15) /\ today = DobYmd(2024, 6, 14))
              => probe.age.v = 23
        /\ (probe.dob = DobYmd(2000, 6, 15) /\ today = DobYmd(2024, 6, 15))
              => probe.age.v = 24

\* calculateAge has returned 24 for 2000-06-15 on the anniversary 2024-06-15
C9_Witness ==
    /\ probe.done /\ probe.fn = "calculateAge"
    /\ probe.dob = DobYmd(2000, 6, 15) /\ today = DobYmd(2024, 6, 15)
    /\ probe.age = Num(24)

-----------------------------------------------------------------------------
(* The system with the scheduling its runtime guarantees: a reply that has  *)
(* arrived is delivered to the handler awaiting it, and a timer that has   *)
(* been set fires unless the reply comes first.  Nothing obliges the       *)
(* Persistence API to answer.                                              *)

FairSpec ==
    /\ Init
    /\ [][Next]_vars
    /\ \A r \in MainIds : WF_vars(MainComplete(r)) /\ WF_vars(MainTimeout(r))

-----------------------------------------------------------------------------
(* Claims about the system, under Spec and FairSpec *)

\* what the claims call a valid name, mobile and action
Claim_NameOk(name) ==
    name # <<>> /\ \A i \in DOMAIN name : IsLetter(name[i]) \/ name[i] \in Whitespace

Claim_MobileOk(mobile) ==
    /\ Len(mobile) = 10
    /\ Claim_Chars(mobile) \subseteq Claim_Digits
    /\ mobile[1] \in {"6", "7", "8", "9"}

Claim_ActionOk(action) == trim(toLowerCase(action)) \in {S_create, S_update, S_delete}

\* the age the spec derives from a date of birth that parses
Claim_Age(dob, t) ==
    IF Claim_OnOrAfter(t.m, t.d, dob.m, dob.d) THEN t.y - dob.y ELSE t.y - dob.y - 1

\* whether date a is strictly before date b
Claim_Before(a, b) ==
    \/ a.y < b.y
    \/ a.y = b.y /\ a.m < b.m
    \/ a.y = b.y /\ a.m = b.m /\ a.d < b.d

\* C1: a request to POST /api/post that passes validation with action delete
\* and whose mobile matches a stored record reaches the Persistence Delete
\* operation with the normalized record, the matching record is removed, and
\* the caller receives the 200 response.
C1_DeleteThroughMainApp ==
    [][\A r \in MainIds :
          /\ (/\ req[r].kind = "post" /\ req[r].httpMethodName = "DELETE"
              /\ Validate(req[r].body, today) = "ok" /\ req[r].body.dob.k = "ymd"
              /\ call[r].state = "sent" /\ call'[r].state = "replied"
              /\ findOne(db, req[r].processedData.mobile) # NoDoc)
             => /\ call[r].body.mobile = req[r].processedData.mobile
                /\ call'[r].reply.status = 200
                /\ Len(db') = Len(db) - 1
          /\ (/\ req[r].kind = "post" /\ req[r].httpMethodName = "DELETE"
              /\ pc[r] = "awaiting" /\ call[r].state = "replied"
              /\ pc'[r] = "done")
             => (call[r].reply.status = 200 => resp'[r].status = 200)
       ]_vars

\* C2: every downstream call of main-app is a bounded wait: a request that
\* awaits the Persistence API eventually ends, with the 502 response if the
\* Persistence API never answers.
C2_BoundedWait ==
    \A r \in MainIds : (pc[r] = "awaiting") ~> (pc[r] = "done")

\* C3: a request to POST /api/post whose name, mobile and action are valid but
\* whose dob cannot be parsed is answered 400, and no call is made to the
\* Persistence API.
C3_UnparseableDobRejected ==
    \A r \in MainIds :
        (/\ req[r].kind = "post"
         /\ req[r].body.dob.k = "bad"
         /\ Claim_NameOk(req[r].body.name)
         /\ Claim_MobileOk(req[r].body.mobile)
         /\ toLowerCase(req[r].body.action) \in validActions)
        => /\ pc[r] = "done"
           /\ resp[r].status = 400
           /\ call[r] = NoCall

\* the validation failures C4 lists
Claim_FailsValidation(body, t) ==
    \/ body.name = <<>> \/ body.mobile = <<>> \/ body.dob.k = "empty" \/ body.action = <<>>
    \/ ~Claim_NameOk(body.name)
    \/ ~Claim_MobileOk(body.mobile)
    \/ body.dob.k = "ymd" /\ Claim_Age(body.dob, t) \notin 0..150
    \/ ~Claim_ActionOk(body.action)

\* C4: a request to POST /api/post that fails a validation step (a missing or
\* empty field, a name not of letters and white space, a mobile not of 10
\* digits starting with 6-9, a derived age outside [0,150], an action not in
\* {create, update, delete}) is answered 400 with success=false, no call to
\* the Persistence API is issued, and the collection is left unchanged.
C4_InvalidNeverForwarded ==
    [][\A r \in MainIds :
          \* a step of MainPost: a request is started, and not by MainGet nor
          \* by a direct caller
          (/\ ops' = ops + 1
           /\ \A k \in DirectIds : call'[k] = call[k]
           /\ req'[r].kind = "post"
           /\ Claim_FailsValidation(req'[r].body, today))
          => /\ pc'[r] = "done"
             /\ resp'[r].status = 400
             /\ ~resp'[r].success
             /\ call'[r] = NoCall
             /\ db' = db
       ]_vars

\* a request with an age above 150 has been answered 400 while the
\* collection holds a record
C4_Witness ==
    \E r \in MainIds :
        /\ req[r].kind = "post" /\ req[r].body.dob = D_ancient
        /\ pc[r] = "done" /\ resp[r].status = 400 /\ call[r] = NoCall
        /\ Len(db) = 1

\* what C6 says of a stored record
Claim_RecordOk(d) ==
    /\ Claim_NameOk(d.name)
    /\ Claim_MobileOk(d.mobile)
    /\ d.dob.k = "ymd"
    /\ d.age \in 0..150

\* C6 as stated: after any sequence of Insert and Upsert operations, through
\* POST /api/post or on the Persistence API directly, every stored record has
\* a name of letters and white space, a mobile of 10 digits starting with
\* 6-9, a dob that passed validation and an age in [0,150].
C6_AllStoredValid == \A i \in DOMAIN db : Claim_RecordOk(db[i])

\* C6 as amended: as long as the Persistence API has only been called by
\* main-app (POST /api/post), every stored record has a name of letters and
\* white space, a mobile of 10 digits starting with 6-9, a dob that parses and
\* an age in [0,150].
C6_StoredThroughMainAppValid ==
    (\A k \in DirectIds : call[k].state = "none")
    => \A i \in DOMAIN db : Claim_RecordOk(db[i])

\* two records have been written through POST /api/post alone
C6_Witness ==
    /\ \A k \in DirectIds : call[k].state = "none"
    /\ Len(db) = 2

\* C7: a request whose action, once trimmed and lower-cased, is create, update
\* or delete passes action validation and is dispatched to the corresponding
\* persistence operation; only other actions fail with InvalidAction.
C7_ActionTrimmed ==
    \A r \in MainIds :
        (/\ req[r].kind = "post"
         /\ Validate([req[r].body EXCEPT !.action = S_create], today) = "ok")
        => IF Claim_ActionOk(req[r].body.action)
           THEN /\ resp[r].status # 400
                /\ req[r].httpMethodName =
                      HttpMethodName(trim(toLowerCase(req[r].body.action)))
           ELSE /\ pc[r] = "done"
                /\ resp[r].status = 400
                /\ resp[r].message = ValidationMessage("InvalidAction")

\* C8: a request to POST /api/post whose dob is the current date or a later
\* date is rejected with 400 and never forwarded, so no record with such a dob
\* is written through it.
C8_DobStrictlyPast ==
    \A r \in MainIds :
        (/\ req[r].kind = "post"
         /\ req[r].body.dob.k = "ymd"
         /\ ~Claim_Before(req[r].body.dob, today))
        => /\ pc[r] = "done"
           /\ resp[r].status = 400
           /\ call[r] = NoCall

\* C10: Upsert with a complete record whose mobile matches no stored record
\* leaves the collection as Insert of the same record would (one new record
\* with trimmed name, mobile and action, integer-coerced age, processedAt
\* defaulting to now) and reports a create: status 201 and a create label.
C10_UpsertFallbackIsInsert ==
    [][\A k \in Callers :
          (/\ call[k].state = "looked" /\ call[k].found = NoDoc
           /\ call'[k].state = "replied")
          => LET f == InsertFields(call[k].body, clock)
             IN  IF SchemaValid(f)
                 THEN /\ db' = Append(db, NewDoc(f, nextId, clock))
                      /\ call'[k].reply.status = 201
                      /\ call'[k].reply.success
                      /\ call'[k].reply.action = "CREATE (from UPDATE)"
                      /\ call'[k].reply.data = NewDoc(f, nextId, clock)
                 ELSE /\ db' = db
                      /\ call'[k].reply.status = 500
       ]_vars

\* an Upsert for a mobile that was not stored has created a record whose name
\* was trimmed and whose age was coerced from "31x", beside another record
C10_Witness ==
    \E k \in Callers :
        /\ call[k].method = "PUT" /\ call[k].state = "replied"
        /\ call[k].body.name = N_pad /\ call[k].body.age = AgeStr(<<"3","1","x">>)
        /\ call[k].reply.status = 201
        /\ call[k].reply.data.name = N_ok /\ call[k].reply.data.age = 31
        /\ call[k].reply.data.processedAt = 0
        /\ Len(db) = 2 /\ db[2] = call[k].reply.data

\* the values an Upsert supplies, as they are stored: name and action trimmed,
\* age coerced to an integer, processedAt as given or the current time
Claim_Supplied(b, now) ==
    [name |-> trim(b.name), dob |-> b.dob, age |-> parseInt(b.age),
     action |-> trim(b.action), processedAt |-> ProcessedAtOr(b.processedAt, now)]

\* a complete record: the five fields present, name and action not blank, and
\* an age that is an integer or a string starting with one
Claim_Complete(b) ==
    /\ ~RequiredMissing(b)
    /\ trim(b.name) # <<>> /\ trim(b.mobile) # <<>> /\ trim(b.action) # <<>>
    /\ ~parseInt(b.age).nan

\* whether the record d holds the supplied values v
Claim_Holds(d, v) ==
    /\ d.name = v.name /\ d.dob = v.dob /\ d.age = v.age.v
    /\ d.action = v.action /\ d.processedAt = v.processedAt

\* the write step of an Upsert by caller k whose lookup found a record that
\* is stored, as it was found, at position i
Claim_UpsertUpdates(k, i) ==
    /\ call[k].state = "looked" /\ call'[k].state = "replied"
    /\ call[k].found # NoDoc
    /\ Claim_Complete(call[k].body)
    /\ i \in DOMAIN db /\ db[i] = call[k].found

\* what C11 says of such a step, but for the modification timestamp
Claim_UpsertFrame(k, i) ==
    /\ Claim_Holds(db'[i], Claim_Supplied(call[k].body, clock))
    /\ db'[i].mobile = db[i].mobile
    /\ db'[i].id = db[i].id
    /\ db'[i].createdAt = db[i].createdAt
    /\ Len(db') = Len(db)
    /\ \A j \in DOMAIN db : j # i => db'[j] = db[j]
    /\ call'[k].reply.status = 200

\* C11 as stated: Upsert with a complete record whose mobile matches a stored
\* record overwrites that record's name, dob, age, action and processedAt with
\* the supplied values, leaves its mobile, identifier and creation timestamp
\* unchanged, advances its modification timestamp, creates no record, changes
\* no other record, and answers 200.
C11_UpsertAdvancesTimestamp ==
    [][\A k \in Callers : \A i \in DOMAIN db :
          Claim_UpsertUpdates(k, i)
          => /\ Claim_UpsertFrame(k, i)
             /\ db'[i].updatedAt > db[i].updatedAt
       ]_vars

\* C11 as amended: such an Upsert overwrites the five fields with the supplied
\* values, leaves mobile, identifier and creation timestamp unchanged, creates
\* no record, changes no other record and answers 200; the modification
\* timestamp advances when a supplied value differs from the stored one, and
\* stays as it was when all five are the stored values.
C11_UpsertOverwrites ==
    [][\A k \in Callers : \A i \in DOMAIN db :
          Claim_UpsertUpdates(k, i)
          => /\ Claim_UpsertFrame(k, i)
             /\ IF Claim_Holds(db[i], Claim_Supplied(call[k].body, clock))
                THEN db'[i].updatedAt = db[i].updatedAt
                ELSE db'[i].updatedAt > db[i].updatedAt
       ]_vars

\* an Upsert has answered 200 after changing the dob and the age of a record
\* that was created before it, beside nothing else in the collection
C11_Witness ==
    \E k \in Callers :
        /\ call[k].method = "PUT" /\ call[k].state = "replied"
        /\ call[k].reply.status = 200 /\ call[k].found # NoDoc
        /\ call[k].found.dob # call[k].body.dob
        /\ Len(db) = 1
        /\ db[1].id = call[k].found.id
        /\ db[1].dob = call[k].body.dob /\ db[1].age = 31
        /\ db[1].createdAt = call[k].found.createdAt
        /\ db[1].updatedAt > call[k].found.updatedAt

\* the step in which the Persistence API answers the Delete call of caller k
Claim_DeleteAnswered(k) ==
    /\ call[k].method = "DELETE"
    /\ call[k].state = "sent" /\ call'[k].state = "replied"

\* whether a stored record has the mobile m
Claim_Stored(m) == \E i \in DOMAIN db : db[i].mobile = m

\* C12: Delete with a mobile that matches no stored record answers the
\* NotFound result (404, success=false), not a server error, and leaves the
\* collection exactly as it was; Delete with no mobile answers 400 and changes
\* nothing either.
C12_DeleteMissIsNotFound ==
    [][\A k \in Callers :
          Claim_DeleteAnswered(k)
          => /\ call[k].body.mobile = <<>>
                => /\ call'[k].reply.status = 400
                   /\ ~call'[k].reply.success
                   /\ db' = db
             /\ (call[k].body.mobile # <<>> /\ ~Claim_Stored(call[k].body.mobile))
                => /\ call'[k].reply.status = 404
                   /\ ~call'[k].reply.success
                   /\ call'[k].reply.message = "Record not found for deletion"
                   /\ db' = db
       ]_vars

\* a Delete for a mobile that is not stored has been answered 404 while the
\* collection holds two records of another mobile
C12_Witness ==
    \E k \in Callers :
        /\ call[k].method = "DELETE" /\ call[k].state = "replied"
        /\ call[k].body.mobile = M_2
        /\ call[k].reply.status = 404
        /\ Len(db) = 2 /\ \A i \in DOMAIN db : db[i].mobile = M_1

\* whether the sequences a and b hold the same records, each as many times
Claim_SameRecords(a, b) ==
    /\ Len(a) = Len(b)
    /\ \A x \in {a[i] : i \in DOMAIN a} \cup {b[i] : i \in DOMAIN b} :
          Cardinality({i \in DOMAIN a : a[i] = x})
             = Cardinality({i \in DOMAIN b : b[i] = x})

Claim_MainStarts == ops' = ops + 1 /\ \A k \in DirectIds : call'[k] = call[k]

\* the data main-app derives from a body: name, mobile and action normalized,
\* the age derived from the dob
Claim_Normalized(pd, body) ==
    /\ pd.name = trim(body.name)
    /\ pd.mobile = trim(body.mobile)
    /\ pd.dob = body.dob
    /\ pd.age = calculateAge(body.dob, today)
    /\ pd.action = trim(toLowerCase(body.action))
    /\ pd.processedAt.k = "iso"

\* C14: for every request to POST /api/post that passes validation, exactly
\* one downstream call is issued; if the call fails (a timeout or a non-2xx
\* reply) the request ends with a 502 response, success=false, that carries
\* the normalized processedData, and no second downstream call is made for
\* the request.
C14_OneCallNoRetry ==
    [][\A r \in MainIds :
          \* the request is started: one call is issued if it passes validation
          /\ (Claim_MainStarts /\ req'[r].kind = "post"
              /\ Validate(req'[r].body, today) = "ok")
             => /\ pc'[r] = "awaiting"
                /\ call'[r].state = "sent"
                /\ call'[r].method = req'[r].httpMethodName
          \* afterwards the call only moves on to its reply: it is not issued
          \* again, neither while the request waits nor once it has ended
          /\ (~Claim_MainStarts /\ req[r].kind = "post")
             => /\ call'[r].method = call[r].method
                /\ call'[r].body = call[r].body
                /\ call'[r].state = "sent" => call[r].state = "sent"
                /\ call[r].state = "replied" => call'[r] = call[r]
                /\ pc[r] = "done" => pc'[r] = "done"
          \* the request ends after a call that failed
          /\ (/\ req[r].kind = "post" /\ pc[r] = "awaiting" /\ pc'[r] = "done"
              /\ ~(call[r].state = "replied" /\ call[r].reply.status \in 200..299))
             => /\ resp'[r].status = 502
                /\ ~resp'[r].success
                /\ resp'[r].processedData = req[r].processedData
                /\ Claim_Normalized(resp'[r].processedData, req[r].body)
       ]_vars

\* a request has ended with 502 on its timeout, carrying the normalized data
\* with the derived age, and the one call it issued was served afterwards
C14_Witness ==
    \E r \in MainIds :
        /\ req[r].kind = "post" /\ pc[r] = "done"
        /\ resp[r].status = 502 /\ resp[r].error = TimeoutError
        /\ req[r].body.name = N_pad
        /\ resp[r].processedData.name = N_ok
        /\ resp[r].processedData.age = Num(0)
        /\ call[r].state = "replied" /\ call[r].reply.status = 201

\* C15: when the Persistence API answers a forwarded call with a failure (404
\* 'Record not found for deletion', 400 for missing fields, 500 for a store
\* error), the error message the Persistence API produced is passed through
\* verbatim in the response main-app returns to its caller.
C15_ErrorPassedThrough ==
    \A r \in MainIds :
        (/\ req[r].kind = "post" /\ pc[r] = "done"
         /\ resp[r].status = 502 /\ resp[r].error.k = "status")
        => call[r].reply.message
              \in {resp[r].message, AxiosErrorMessage(resp[r].error)}

\* the number of stored records with the mobile m
Claim_CountOf(coll, m) == Cardinality({i \in DOMAIN coll : coll[i].mobile = m})

\* C16: the lookup-then-write of Upsert is not atomic.  An Upsert whose lookup
\* found no record takes the fallback-create branch and reports create even
\* when another Upsert has stored a record with that mobile since the lookup,
\* so the collection ends with two records sharing the mobile; and a Delete
\* removes a record that an Upsert has looked up and not yet written.
C16_UpsertNotAtomic ==
    [][\A k \in Callers :
          \* the write of an Upsert that found nothing, a record with its
          \* mobile having been stored since
          /\ (/\ call[k].state = "looked" /\ call'[k].state = "replied"
              /\ call[k].found = NoDoc
              /\ Claim_Complete(call[k].body)
              /\ Claim_Stored(trim(call[k].body.mobile)))
             => /\ call'[k].reply.status = 201
                /\ call'[k].reply.action = "CREATE (from UPDATE)"
                /\ Len(db') = Len(db) + 1
                /\ Claim_CountOf(db', trim(call[k].body.mobile))
                      = Claim_CountOf(db, trim(call[k].body.mobile)) + 1
          \* a Delete of the record that the Upsert of another caller has
          \* looked up
          /\ (/\ Claim_DeleteAnswered(k)
              /\ \E j \in Callers \ {k} :
                    /\ call[j].state = "looked" /\ call[j].found # NoDoc
                    /\ call[j].found.id = findOne(db, call[k].body.mobile).id)
             => /\ call'[k].reply.status = 200
                /\ Len(db') = Len(db) - 1
                /\ \A i \in DOMAIN db' : db'[i].id # call'[k].reply.data.id
       ]_vars

\* two Upserts for one mobile, started when no record had it, have both
\* reported create, and the collection holds two records with that mobile
C16_Witness ==
    \E j, k \in Callers :
        /\ j # k
        /\ call[j].method = "PUT" /\ call[k].method = "PUT"
        /\ call[j].state = "replied" /\ call[k].state = "replied"
        /\ call[j].found = NoDoc /\ call[k].found = NoDoc
        /\ call[j].reply.action = "CREATE (from UPDATE)"
        /\ call[k].reply.action = "CREATE (from UPDATE)"
        /\ call[j].reply.data.mobile = call[k].reply.data.mobile
        /\ Len(db) = 2 /\ db[1].mobile = db[2].mobile

\* a record that an Upsert looked up has been deleted before the Upsert wrote
C16_DeletedBetween ==
    \E j, k \in Callers :
        /\ call[j].method = "PUT" /\ call[j].state = "looked"
        /\ call[j].found # NoDoc
        /\ call[k].method = "DELETE" /\ call[k].state = "replied"
        /\ call[k].reply.data.id = call[j].found.id
        /\ db = <<>>

\* the stored records with the mobile m, in their order
Claim_Of(coll, m) == SelectSeq(coll, LAMBDA d : d.mobile = m)

\* the mobiles of the stored records
Claim_Mobiles(coll) == {coll[i].mobile : i \in DOMAIN coll}

\* the mobile a call is about
Claim_Key(c) == trim(c.body.mobile)

\* the status a write of the fields f answers when it creates a record
Claim_CreateStatus(b, f) ==
    IF RequiredMissing(b) THEN 400 ELSE IF SchemaValid(f) THEN 201 ELSE 500

\* C17: requests on different mobiles do not interfere.  Every lookup and
\* write step of an Insert, Upsert or Delete request on a mobile m leaves the
\* records of every other mobile as they are, and what it finds, answers and
\* does to the records of m is determined by the records of m alone: it is
\* what the step gives on a collection holding only the records of m.  So in
\* any interleaving the responses and stored records for m are those of the
\* requests on m run alone (up to the identifiers and timestamps the store
\* assigns).
C17_DifferentMobilesIndependent ==
    [][\A k \in Callers :
          (call'[k] # call[k] /\ call[k].state \in {"sent", "looked"}
           /\ call[k].method \in {"POST", "PUT", "DELETE"})
          => LET m    == Claim_Key(call[k])
                 b    == call[k].body
                 own  == Claim_Of(db, m)
                 own2 == Claim_Of(db', m)
                 st   == call'[k].reply.status
             IN  /\ \A m2 \in (Claim_Mobiles(db) \cup Claim_Mobiles(db')) \ {m} :
                       Claim_Of(db', m2) = Claim_Of(db, m2)
                 /\ (call[k].method = "POST")
                       => /\ st = Claim_CreateStatus(b, InsertFields(b, clock))
                          /\ Len(own2) = Len(own) + (IF st = 201 THEN 1 ELSE 0)
                          /\ SubSeq(own2, 1, Len(own)) = own
                 /\ (call[k].method = "PUT" /\ call[k].state = "sent")
                       => /\ own2 = own
                          /\ call'[k].state = "looked"
                                => call'[k].found = findOne(own, m)
                 /\ (call[k].method = "PUT" /\ call[k].state = "looked"
                     /\ call[k].found = NoDoc)
                       => /\ st = Claim_CreateStatus(b, UpsertCreateFields(b, clock))
                          /\ Len(own2) = Len(own) + (IF st = 201 THEN 1 ELSE 0)
                          /\ SubSeq(own2, 1, Len(own)) = own
                 /\ (call[k].method = "PUT" /\ call[k].state = "looked"
                     /\ call[k].found # NoDoc)
                       => LET f == UpsertUpdateFields(call[k].found, b, clock)
                              i == IndexOfId(own, call[k].found.id)
                          IN  /\ st = IF SchemaValid(f) /\ i # 0 THEN 200 ELSE 500
                              /\ Len(own2) = Len(own)
                              /\ \A j \in DOMAIN own :
                                    own2[j] = IF j = i /\ st = 200
                                              THEN SavedDoc(own[j], call[k].found, f, clock)
                                              ELSE own[j]
                 /\ (call[k].method = "DELETE")
                       => /\ st = IF b.mobile = <<>> THEN 400
                                  ELSE IF own = <<>> THEN 404 ELSE 200
                          /\ own2 = IF own = <<>> THEN own ELSE Tail(own)
                          /\ st = 200 => call'[k].reply.data = own[1]
       ]_vars

\* an Upsert on one mobile has updated its record, and an Insert on another
\* mobile, started while that Upsert was in progress, stored its record
\* before the Upsert wrote
C17_Witness ==
    /\ call["d1"].method = "PUT" /\ call["d1"].state = "replied"
    /\ call["d1"].reply.status = 200
    /\ call["d2"].method = "POST" /\ call["d2"].state = "replied"
    /\ call["d2"].reply.status = 201
    /\ Len(db) = 2
    /\ db[1].mobile = M_1 /\ db[2].mobile = M_2
    /\ db[1].id = call["d1"].reply.data.id
    /\ db[2].id = call["d2"].reply.data.id
    /\ db[1].updatedAt > db[2].createdAt

\* C18: every request that passes main-app's validation is forwarded in a
\* form that passes the Persistence API's own required-field check for the
\* selected operation (a non-empty trimmed name, mobile, dob and action and a
\* defined age for Insert and Upsert; a non-empty mobile for Delete), so a
\* locally validated request is never answered 400 by the Persistence API.
C18_ForwardedPassesRequiredCheck ==
    \A r \in MainIds :
        (req[r].kind = "post" /\ call[r].state # "none")
        => /\ call[r].method \in {"POST", "PUT"} => ~RequiredMissing(call[r].body)
           /\ call[r].method = "DELETE" => call[r].body.mobile # <<>>
           /\ call[r].state = "replied" => call[r].reply.status # 400

\* C18 for create and update alone, to tell the defect of the name check from
\* that of the delete call
C18_CreateUpdatePassRequiredCheck ==
    \A r \in MainIds :
        (req[r].kind = "post" /\ call[r].state # "none"
         /\ call[r].method \in {"POST", "PUT"})
        => /\ ~RequiredMissing(call[r].body)
           /\ call[r].state = "replied" => call[r].reply.status # 400

\* C19: Insert never looks up existing records and Delete removes at most
\* one.  Every successful Insert increases the collection size by exactly
\* one, also when a record with the same mobile is stored already, and every
\* successful Delete decreases it by exactly one, also when several records
\* share the mobile: the others with that mobile stay.
C19_InsertAddsDeleteRemovesOne ==
    [][\A k \in Callers :
          /\ (/\ call[k].method = "POST"
              /\ call[k].state = "sent" /\ call'[k].state = "replied"
              /\ call'[k].reply.success)
             => LET m == Claim_Key(call[k])
                IN  /\ Len(db') = Len(db) + 1
                    /\ SubSeq(db', 1, Len(db)) = db
                    /\ db'[Len(db')].mobile = m
                    /\ Claim_CountOf(db', m) = Claim_CountOf(db, m) + 1
          /\ (/\ Claim_DeleteAnswered(k)
              /\ call'[k].reply.success)
             => LET m == Claim_Key(call[k])
                IN  /\ Len(db') = Len(db) - 1
                    /\ Claim_CountOf(db', m) = Claim_CountOf(db, m) - 1
                    /\ \A m2 \in Claim_Mobiles(db) \ {m} :
                          Claim_CountOf(db', m2) = Claim_CountOf(db, m2)
       ]_vars

\* after two successful creates for one mobile, a single successful Delete
\* has left one record with that mobile: the later-created one
C19_Witness ==
    \E k \in Callers :
        /\ call[k].method = "DELETE" /\ call[k].state = "replied"
        /\ call[k].reply.status = 200
        /\ nextId = 3
        /\ call[k].reply.data.id = 1
        /\ Len(db) = 1 /\ db[1].id = 2
        /\ db[1].mobile = call[k].reply.data.mobile

====
